---- MODULE Spec2Model ----
(***************************************************************************)
(* Model of myhdl/_fixbv.py: the FixedPointFormat algebra and the fixbv     *)
(* value type (construction, float conversion, rounding, overflow,         *)
(* arithmetic, comparison, re-quantization and whole-value assignment).    *)
(*                                                                         *)
(* Real numbers are exact rationals [n, d] with d > 0; the record with     *)
(* d = 0 stands for Python's None.  Floating-point products by 2^fwl and   *)
(* math.modf are exact for the widths explored here; math.log(x, 2) is the *)
(* exact logarithm except at the powers of two listed in LogAbove, where   *)
(* the float quotient lies above the integer; round() is that of Python 3. *)
(* A format is the triple <<wl,iwl,fwl>>.  An operation ends "ok" or with  *)
(* the error it raises, named after the error kind it stands for:          *)
(* InvalidRange (lines 140-151), InvalidRoundMode (591, 667),              *)
(* InvalidOverflowMode (702), InvalidExponent (341-343), BoundsViolation   *)
(* (the storage's bounds check), AssertionError (34) and AttributeError (a *)
(* format read from an object that has none).                              *)
(***************************************************************************)
EXTENDS Integers, Sequences, FiniteSets, TLC

VARIABLES slots, result, last, nstore

vars == <<slots, result, last, nstore>>

----------------------------------------------------------------------------
(* Bounds of the model *)

\* number of times a slot may be written: bindings and in-place assignments
MaxStore == 3
\* largest magnitude of the integers handed to the overflow engine
MaxRaw == 40
\* widest result an arithmetic operation is explored for
MaxW == 30
\* largest exponent explored for **
MaxExp == 3

Slots == {1, 2}

----------------------------------------------------------------------------
(* Exact real arithmetic *)

R(n, d) == [n |-> n, d |-> d]
None == [n |-> 0, d |-> 0]
IsNone(x) == x.d = 0

Pow2(k) == 2^k
Abs(i) == IF i < 0 THEN -i ELSE i
Max(i, j) == IF i > j THEN i ELSE j

RLt(x, y) == x.n * y.d < y.n * x.d
RLe(x, y) == x.n * y.d <= y.n * x.d
REq(x, y) == x.n * y.d = y.n * x.d
RAbs(x) == R(Abs(x.n), x.d)
RInt(i) == R(i, 1)

RECURSIVE Reduce(_, _)
Reduce(n, d) == IF d > 1 /\ n % 2 = 0 /\ d % 2 = 0 THEN Reduce(n \div 2, d \div 2)
                ELSE R(n, d)

\* float(x): one canonical representative per real number
float(x) == IF x.n = 0 THEN R(0, 1) ELSE Reduce(x.n, x.d)

math_floor(x) == x.n \div x.d
math_ceil(x) == -((-(x.n)) \div x.d)
\* int(x): truncation toward zero
int(x) == IF x.n >= 0 THEN x.n \div x.d ELSE -((-(x.n)) \div x.d)

\* math.modf(x): <<fractional part, integer part>>, both with the sign of x
math_modf(x) == <<R(x.n - int(x) * x.d, x.d), int(x)>>

RECURSIVE LeastPow(_, _, _)
LeastPow(k, num, den) == IF Pow2(k) * den >= num THEN k ELSE LeastPow(k + 1, num, den)

\* the exponents k < 64 at which the float quotient math.log(2.0**k, 2) is
\* above k (29.000000000000004 for k = 29); at every other real x >= 1 of the
\* widths explored the float logarithm has the ceiling of the exact one
LogAbove == {29, 31, 39, 47, 51, 55, 58, 59, 62}

\* math.ceil(math.log(x, 2)) for a real x >= 1
CeilLog2(x) ==
    LET k == LeastPow(0, x.n, x.d)
    IN IF x.n = Pow2(k) * x.d /\ k \in LogAbove THEN k + 1 ELSE k

\* the builtin round(x) of Python 3: to the nearest integer, ties to the even
\* neighbour
IsTie(x) == (2 * x.n) % x.d = 0 /\ x.n % x.d # 0
builtin_round(x) ==
    IF IsTie(x)
    THEN (IF math_floor(x) % 2 = 0 THEN math_floor(x) ELSE math_ceil(x))
    ELSE (2 * x.n + x.d) \div (2 * x.d)

----------------------------------------------------------------------------
(* FixedPointFormat *)

NoFormat == <<0, 0, 0>>

\* FixedPointFormat.__init__: the assertion wl == iwl+fwl+1
FixedPointFormat_ok(wl, iwl, fwl) == wl = iwl + fwl + 1

\* mutant: the integer part does not grow
FixedPointFormat___addsub___nogrow(s, o) ==
    LET iwl == Max(s[2], o[2])
        fwl == Max(s[3], o[3])
        wl == iwl + fwl + 1
    IN <<wl, iwl, fwl>>

FixedPointFormat___addsub__(s, o) ==
    LET iwl == Max(s[2], o[2]) + 1
        fwl == Max(s[3], o[3])
        wl == iwl + fwl + 1
    IN <<wl, iwl, fwl>>

\* mutant: the integer widths are added, the sign bits not counted
FixedPointFormat___muldiv___addiwl(s, o) ==
    LET wl == s[1] + o[1]
        fwl == s[3] + o[3]
        iwl == s[2] + o[2]
    IN <<wl, iwl, fwl>>

FixedPointFormat___muldiv__(s, o) ==
    LET wl == s[1] + o[1]
        fwl == s[3] + o[3]
        iwl == wl - fwl - 1
    IN <<wl, iwl, fwl>>

----------------------------------------------------------------------------
(* Rounding and overflow engines *)

RoundModes == {"floor", "ceil", "fix", "nearest", "round", "round_even", "convergent"}
OverflowModes == {"saturate", "wrap", "ring"}

\* fixbv._round, float branch; the result is the rounded integer
fixbv__round_float(val, fmt, round_mode) ==
    LET v == R(val.n * Pow2(fmt[3]), val.d)
        fval == math_modf(v)[1]
        ival == math_modf(v)[2]
        half == 2 * Abs(fval.n) = fval.d
    IN CASE round_mode = "ceil" -> math_ceil(v)
         [] round_mode = "fix" -> IF v.n > 0 THEN math_floor(v) ELSE math_ceil(v)
         [] round_mode = "floor" -> math_floor(v)
         [] round_mode = "nearest" ->
                IF half
                THEN (IF v.n > 0 THEN int(R(v.n + v.d, v.d)) ELSE int(R(v.n - v.d, v.d)))
                ELSE builtin_round(v)
         [] round_mode = "round" -> builtin_round(v)
         [] round_mode \in {"round_even", "convergent"} ->
                LET abs_ival == Abs(ival)
                    sign == IF ival < 0 THEN -1 ELSE 1
                IN IF half
                   THEN (IF abs_ival % 2 = 0 THEN abs_ival * sign
                         ELSE (abs_ival + 1) * sign)
                   ELSE builtin_round(v)

\* val >> k and val & (2^k - 1) on Python's unbounded two's complement
Shr(v, k) == v \div Pow2(k)
LowBits(v, k) == v % Pow2(k)

\* mutant: mode round increments the kept part at every tie
fixbv__round_fixbv_tieup(val, fmt, round_mode) ==
    IF val.W[3] <= fmt[3]
    THEN val.val * Pow2(fmt[3] - val.W[3])
    ELSE LET round_bits == val.W[3] - fmt[3]
             sign_bit == Shr(val.val, val.W[1] - 1) % 2
             least_reserve_bit == Shr(val.val, round_bits) % 2
             greatest_tail_bit == Shr(val.val, round_bits - 1) % 2
             tail_bits == LowBits(val.val, round_bits)
             retval == Shr(val.val, round_bits)
             middle == Pow2(round_bits - 1)
         IN CASE round_mode = "ceil" -> IF tail_bits # 0 THEN retval + 1 ELSE retval
              [] round_mode = "floor" -> retval
              [] round_mode = "fix" ->
                     IF sign_bit = 1 /\ tail_bits # 0 THEN retval + 1 ELSE retval
              [] round_mode = "nearest" ->
                     IF sign_bit = 0
                     THEN (IF greatest_tail_bit = 1 THEN retval + 1 ELSE retval)
                     ELSE (IF tail_bits > middle THEN retval + 1 ELSE retval)
              [] round_mode = "round" ->
                     IF tail_bits >= middle THEN retval + 1 ELSE retval
              [] round_mode \in {"round_even", "convergent"} ->
                     IF tail_bits = middle
                     THEN (IF least_reserve_bit = 1 THEN retval + 1 ELSE retval)
                     ELSE (IF tail_bits > middle THEN retval + 1 ELSE retval)

\* fixbv._round, fixbv branch: val is an object with format val.W
fixbv__round_fixbv(val, fmt, round_mode) ==
    IF val.W[3] <= fmt[3]
    THEN val.val * Pow2(fmt[3] - val.W[3])
    ELSE LET round_bits == val.W[3] - fmt[3]
             sign_bit == Shr(val.val, val.W[1] - 1) % 2
             least_reserve_bit == Shr(val.val, round_bits) % 2
             greatest_tail_bit == Shr(val.val, round_bits - 1) % 2
             tail_bits == LowBits(val.val, round_bits)
             retval == Shr(val.val, round_bits)
             middle == Pow2(round_bits - 1)
         IN CASE round_mode = "ceil" -> IF tail_bits # 0 THEN retval + 1 ELSE retval
              [] round_mode = "floor" -> retval
              [] round_mode = "fix" ->
                     IF sign_bit = 1 /\ tail_bits # 0 THEN retval + 1 ELSE retval
              [] round_mode = "nearest" ->
                     IF sign_bit = 0
                     THEN (IF greatest_tail_bit = 1 THEN retval + 1 ELSE retval)
                     ELSE (IF tail_bits > middle THEN retval + 1 ELSE retval)
              [] round_mode \in {"round", "round_even", "convergent"} ->
                     IF tail_bits = middle
                     THEN (IF least_reserve_bit = 1 THEN retval + 1 ELSE retval)
                     ELSE (IF tail_bits > middle THEN retval + 1 ELSE retval)

\* mutant: saturation clamps to mmax instead of mmax-1
fixbv__overflow_offbyone(val, fmt, overflow_mode) ==
    LET mm == Pow2(fmt[1] - 1)
        mmin == -mm
        mmax == mm
    IN CASE overflow_mode = "saturate" ->
                IF val >= mmax THEN mmax
                ELSE IF val <= mmin THEN mmin
                ELSE val
         [] overflow_mode \in {"ring", "wrap"} ->
                ((val - mmin) % (mmax - mmin)) + mmin

\* mutant: wrapping reduces the value itself, not its offset from mmin
fixbv__overflow_nooffset(val, fmt, overflow_mode) ==
    LET mm == Pow2(fmt[1] - 1)
        mmin == -mm
        mmax == mm
    IN CASE overflow_mode = "saturate" ->
                IF val >= mmax THEN mmax - 1
                ELSE IF val <= mmin THEN mmin
                ELSE val
         [] overflow_mode \in {"ring", "wrap"} ->
                val % (mmax - mmin)

\* fixbv._overflow on an integer value
fixbv__overflow(val, fmt, overflow_mode) ==
    LET mm == Pow2(fmt[1] - 1)
        mmin == -mm
        mmax == mm
    IN CASE overflow_mode = "saturate" ->
                IF val >= mmax THEN mmax - 1
                ELSE IF val <= mmin THEN mmin
                ELSE val
         [] overflow_mode \in {"ring", "wrap"} ->
                ((val - mmin) % (mmax - mmin)) + mmin

----------------------------------------------------------------------------
(* fixbv objects *)

\* kind "none": no object; "placeholder": constructed without min/max/res
\* (_val is None and no format is attached); "fixbv": a sized value.
\* ifval (_ifval) is kept for placeholders, the only objects it is read from.
NoObj == [kind |-> "none", val |-> 0, W |-> NoFormat,
          round_mode |-> "floor", overflow_mode |-> "saturate", ifval |-> R(0, 1)]

Outcome(err, obj) == [err |-> err, obj |-> obj]

\* fixbv._calc_width(val, res) for val >= 1
fixbv__calc_width(val, res) ==
    LET frac0 == math_modf(val)[1]
        integer == math_modf(val)[2]
        frac == IF RLt(res, frac0) \/ frac0.n = 0 THEN res ELSE frac0
        iwl == IF Abs(integer) = 0 THEN 0 ELSE CeilLog2(RInt(Abs(integer)))
        fwl == IF frac.n = 0 THEN 0 ELSE CeilLog2(R(frac.d, frac.n))
    IN <<iwl, fwl>>

\* the bounds fixbv.__init__ hands to the storage: [_min, _max)
fixbv__min(nrbits) == -1 * Pow2(nrbits - 1)
fixbv__max(nrbits) == Pow2(nrbits - 1)

\* intbv._handleBounds: TRUE when the value is accepted
intbv__handleBounds(val, min, max) == val >= min /\ val < max

\* fixbv._handleBounds on a value of format W
fixbv__handleBounds(val, W) ==
    intbv__handleBounds(val, fixbv__min(W[1]), fixbv__max(W[1]))

\* mutant: the rounded value is one too large
fixbv__from_float_plusone(val, W, round_mode) == fixbv__round_float(val, W, round_mode) + 1

\* fixbv._from_float: rounding only
fixbv__from_float(val, W, round_mode) == fixbv__round_float(val, W, round_mode)

\* fixbv._to_float
fixbv__to_float(obj) == float(R(obj.val, Pow2(obj.W[3])))

\* mutant: the sign bit is not counted in the total width
fixbv_format_nosign(min, max, res) ==
    LET ival == IF RLt(max, RAbs(min)) THEN RAbs(min) ELSE max
        w == fixbv__calc_width(ival, res)
    IN <<w[1] + w[2], w[1], w[2]>>

\* the format fixbv.__init__ derives from (min, max, res)
fixbv_format(min, max, res) ==
    LET ival == IF RLt(max, RAbs(min)) THEN RAbs(min) ELSE max
        w == fixbv__calc_width(ival, res)
        niwl == w[1]
        nfwl == w[2]
        nwl == niwl + nfwl + 1
    IN <<nwl, niwl, nfwl>>

\* mutant: the checks of min and of the lower end of res are missing
fixbv_invalid_range_maxonly(min, max, res) ==
    RLt(max, RInt(1)) \/ RLt(RInt(1), res)

\* the range and resolution checks of fixbv.__init__: TRUE when it raises
fixbv_invalid_range(min, max, res) ==
    \/ RLt(max, RInt(1)) \/ RLt(RAbs(min), RInt(1))
    \/ RLe(res, RInt(0)) \/ RLt(RInt(1), res)

\* fixbv.__init__(val, min, max, res, round_mode, overflow_mode); the storage
\* sized by [_min, _max) has nwl bits, so the check of line 175 never raises
fixbv___init__(val, min, max, res, round_mode, overflow_mode) ==
    IF IsNone(min) \/ IsNone(max) \/ IsNone(res)
    THEN Outcome("ok", [kind |-> "placeholder", val |-> 0, W |-> NoFormat,
                        round_mode |-> round_mode, overflow_mode |-> overflow_mode,
                        ifval |-> float(val)])
    ELSE IF fixbv_invalid_range(min, max, res)
    THEN Outcome("InvalidRange", NoObj)
    ELSE LET W == fixbv_format(min, max, res)
         IN IF round_mode \notin RoundModes
            THEN Outcome("InvalidRoundMode", NoObj)
            ELSE LET fxval == fixbv__from_float(val, W, round_mode)
                 IN IF ~fixbv__handleBounds(fxval, W)
                    THEN Outcome("BoundsViolation", NoObj)
                    ELSE Outcome("ok", [kind |-> "fixbv", val |-> fxval, W |-> W,
                                        round_mode |-> round_mode,
                                        overflow_mode |-> overflow_mode,
                                        ifval |-> R(0, 1)])

\* fixbv.__getitem__ with a tuple or list key of two or three elements
\* (re-quantization)
fixbv___getitem__(self, key) ==
    LET fwl == IF Len(key) = 3 THEN key[3] ELSE key[1] - key[2] - 1
        rs == IF fwl >= 0 THEN R(1, Pow2(fwl)) ELSE R(Pow2(-fwl), 1)
        nmax == IF key[2] >= 0 THEN R(Pow2(key[2]), 1) ELSE R(1, Pow2(-key[2]))
        nmin == R(-(nmax.n), nmax.d)
        fval == IF self.kind = "placeholder" THEN self.ifval ELSE fixbv__to_float(self)
    IN fixbv___init__(fval, nmin, nmax, rs, "floor", "saturate")

\* retval = fixbv(0)[iW[:]]: the zero-valued result every operator allocates
fixbv_zero(iW) ==
    fixbv___getitem__(fixbv___init__(R(0, 1), None, None, None, "floor", "saturate").obj,
                      iW)

\* retval._val = v; retval._handleBounds()
fixbv_assign(retval, v) ==
    IF retval.err # "ok" THEN retval
    ELSE IF ~fixbv__handleBounds(v, retval.obj.W) THEN Outcome("BoundsViolation", NoObj)
    ELSE Outcome("ok", [retval.obj EXCEPT !.val = v])

\* mutant: the second operand is never shifted
fixbv_align_noshift(self, other) ==
    IF self.W[3] < other.W[3]
    THEN <<self.val * Pow2(other.W[3] - self.W[3]), other.val>>
    ELSE <<self.val, other.val>>

\* the operands of +, -, and the comparisons, aligned to the larger fwl
fixbv_align(self, other) ==
    IF self.W[3] < other.W[3]
    THEN <<self.val * Pow2(other.W[3] - self.W[3]), other.val>>
    ELSE <<self.val, other.val * Pow2(self.W[3] - other.W[3])>>

fixbv___add__(self, other) ==
    LET iW == FixedPointFormat___addsub__(self.W, other.W)
        ab == fixbv_align(self, other)
    IN fixbv_assign(fixbv_zero(iW), ab[1] + ab[2])

fixbv___sub__(self, other) ==
    LET iW == FixedPointFormat___addsub__(self.W, other.W)
        ab == fixbv_align(self, other)
    IN fixbv_assign(fixbv_zero(iW), ab[1] - ab[2])

fixbv___mul__(self, other) ==
    LET iW == FixedPointFormat___muldiv__(self.W, other.W)
    IN fixbv_assign(fixbv_zero(iW), self.val * other.val)

\* an exponent: a Python int n, or a float x
PyInt(n) == [type |-> "int", v |-> R(n, 1)]
PyFloat(x) == [type |-> "float", v |-> float(x)]

\* isinstance(other, integer_types)
isinstance_integer_types(other) == other.type = "int"

\* a ** n on Python integers, n >= 0 (0 ** 0 is 1)
RECURSIVE IntPow(_, _)
IntPow(a, n) == IF n <= 0 THEN 1 ELSE a * IntPow(a, n - 1)

\* the format loop of fixbv.__pow__
RECURSIVE fixbv_pow_format(_, _, _)
fixbv_pow_format(iW, W, k) ==
    IF k <= 0 THEN iW ELSE fixbv_pow_format(FixedPointFormat___muldiv__(iW, W), W, k - 1)

\* iW of fixbv.__pow__ for an integer exponent n >= 0
fixbv_pow_iW(W, n) ==
    IF n < 2 THEN W
    ELSE fixbv_pow_format(FixedPointFormat___muldiv__(W, W), W, n - 2)

\* fixbv.__pow__ on a sized value, other an int n >= 0 or a float
fixbv___pow__(self, other) ==
    IF ~isinstance_integer_types(other) THEN Outcome("InvalidExponent", NoObj)
    ELSE fixbv_assign(fixbv_zero(fixbv_pow_iW(self.W, other.v.n)),
                      IntPow(self.val, other.v.n))

\* the six comparisons, as <<eq, ne, gt, ge, lt, le>>
fixbv_compare(self, other) ==
    LET ab == fixbv_align(self, other)
        a == ab[1]
        b == ab[2]
    IN <<a = b, a # b, a > b, a >= b, a < b, a <= b>>

\* intbv.__setitem__(slice(None), v): the storage assigns the raw value and
\* then enforces the bounds
intbv___setitem__(self, v) ==
    IF ~fixbv__handleBounds(v, self.W)
    THEN Outcome("BoundsViolation", [self EXCEPT !.val = v])
    ELSE Outcome("ok", [self EXCEPT !.val = v])

\* fixbv.__setitem__(slice(None), val) with val a fixbv: self after the
\* assignment
fixbv___setitem__(self, val) ==
    IF val.W[3] > self.W[3] /\ self.round_mode \notin RoundModes
    THEN Outcome("InvalidRoundMode", self)
    ELSE IF self.overflow_mode \notin OverflowModes THEN Outcome("InvalidOverflowMode", self)
    ELSE LET v0 == fixbv__round_fixbv(val, self.W, self.round_mode)
             v == fixbv__overflow(v0, self.W, self.overflow_mode)
         IN intbv___setitem__(self, v)

----------------------------------------------------------------------------
(* The state machine: a program is a sequence of statements.  slots are the *)
(* names it binds values to, result is the value of the statement being    *)
(* executed, last records that statement with its inputs and how it ended, *)
(* nstore counts the writes to slots.  A statement starts when the one      *)
(* before it has ended: its value was bound (Store) or dropped (Discard).  *)

NoCmp == <<FALSE, FALSE, FALSE, FALSE, FALSE, FALSE>>
NoExp == PyInt(0)

LastBase == [op |-> "none", a |-> 0, b |-> 0,
             val |-> None, min |-> None, max |-> None, res |-> None,
             round_mode |-> "", overflow_mode |-> "",
             key |-> <<>>, n |-> NoExp, iW |-> NoFormat, cmp |-> NoCmp, x |-> 0, v |-> 0,
             err |-> "ok"]

Init ==
    /\ slots = [k \in Slots |-> NoObj]
    /\ result = NoObj
    /\ last = LastBase
    /\ nstore = 0

Idle == last.op = "none"
IsObj(k) == slots[k].kind # "none"
IsFixbv(k) == slots[k].kind = "fixbv"

\* result = fixbv(val, min, max, res, round_mode, overflow_mode)
Construct(val, min, max, res, round_mode, overflow_mode) ==
    LET o == fixbv___init__(val, min, max, res, round_mode, overflow_mode)
    IN /\ Idle
       /\ result' = o.obj
       /\ last' = [LastBase EXCEPT !.op = "init", !.val = val, !.min = min, !.max = max,
                                   !.res = res, !.round_mode = round_mode,
                                   !.overflow_mode = overflow_mode, !.err = o.err]
       /\ UNCHANGED <<slots, nstore>>

\* slot k = result
Store(k) ==
    /\ result.kind # "none"
    /\ nstore < MaxStore
    /\ slots' = [slots EXCEPT ![k] = result]
    /\ result' = NoObj
    /\ nstore' = nstore + 1
    /\ last' = LastBase

\* the statement ends without binding its value
Discard ==
    /\ ~Idle
    /\ result' = NoObj
    /\ last' = LastBase
    /\ UNCHANGED <<slots, nstore>>

\* an operation on a placeholder reads the format it does not have
AttributeError == Outcome("AttributeError", NoObj)

\* result = slots[i] + slots[j]
Add(i, j) ==
    /\ Idle
    /\ IsObj(i) /\ IsObj(j)
    /\ LET both == IsFixbv(i) /\ IsFixbv(j)
           iW == IF both THEN FixedPointFormat___addsub__(slots[i].W, slots[j].W)
                 ELSE NoFormat
           o == IF both THEN fixbv___add__(slots[i], slots[j]) ELSE AttributeError
       IN /\ iW[1] <= MaxW
          /\ result' = o.obj
          /\ last' = [LastBase EXCEPT !.op = "add", !.a = i, !.b = j, !.iW = iW,
                                      !.err = o.err]
    /\ UNCHANGED <<slots, nstore>>

\* result = slots[i] - slots[j]
Sub(i, j) ==
    /\ Idle
    /\ IsObj(i) /\ IsObj(j)
    /\ LET both == IsFixbv(i) /\ IsFixbv(j)
           iW == IF both THEN FixedPointFormat___addsub__(slots[i].W, slots[j].W)
                 ELSE NoFormat
           o == IF both THEN fixbv___sub__(slots[i], slots[j]) ELSE AttributeError
       IN /\ iW[1] <= MaxW
          /\ result' = o.obj
          /\ last' = [LastBase EXCEPT !.op = "sub", !.a = i, !.b = j, !.iW = iW,
                                      !.err = o.err]
    /\ UNCHANGED <<slots, nstore>>

\* result = slots[i] * slots[j]
Mul(i, j) ==
    /\ Idle
    /\ IsObj(i) /\ IsObj(j)
    /\ LET both == IsFixbv(i) /\ IsFixbv(j)
           iW == IF both THEN FixedPointFormat___muldiv__(slots[i].W, slots[j].W)
                 ELSE NoFormat
           o == IF both THEN fixbv___mul__(slots[i], slots[j]) ELSE AttributeError
       IN /\ iW[1] <= MaxW
          /\ result' = o.obj
          /\ last' = [LastBase EXCEPT !.op = "mul", !.a = i, !.b = j, !.iW = iW,
                                      !.err = o.err]
    /\ UNCHANGED <<slots, nstore>>

\* result = slots[i] ** other; the type of other is checked before the format
\* of slots[i] is read
Pow(i, other) ==
    /\ Idle
    /\ IsObj(i)
    /\ LET isint == isinstance_integer_types(other)
           iW == IF IsFixbv(i) /\ isint THEN fixbv_pow_iW(slots[i].W, other.v.n)
                 ELSE NoFormat
           o == IF IsFixbv(i) \/ ~isint THEN fixbv___pow__(slots[i], other)
                ELSE AttributeError
       IN /\ iW[1] <= MaxW
          /\ result' = o.obj
          /\ last' = [LastBase EXCEPT !.op = "pow", !.a = i, !.n = other, !.iW = iW,
                                      !.err = o.err]
    /\ UNCHANGED <<slots, nstore>>

\* the six comparisons of slots[i] with slots[j]
Compare(i, j) ==
    /\ Idle
    /\ IsFixbv(i) /\ IsFixbv(j)
    /\ result' = NoObj
    /\ last' = [LastBase EXCEPT !.op = "cmp", !.a = i, !.b = j,
                                !.cmp = fixbv_compare(slots[i], slots[j])]
    /\ UNCHANGED <<slots, nstore>>

\* result = slots[i][key]
GetItem(i, key) ==
    /\ Idle
    /\ IsObj(i)
    /\ LET o == fixbv___getitem__(slots[i], key)
       IN /\ result' = o.obj
          /\ last' = [LastBase EXCEPT !.op = "getitem", !.a = i, !.key = key,
                                      !.err = o.err]
    /\ UNCHANGED <<slots, nstore>>

\* slots[i][:] = slots[j]
SetItem(i, j) ==
    /\ Idle
    /\ IsObj(i) /\ IsObj(j)
    /\ nstore < MaxStore
    /\ LET o == IF IsFixbv(i) /\ IsFixbv(j) THEN fixbv___setitem__(slots[i], slots[j])
                ELSE Outcome("AttributeError", slots[i])
       IN /\ slots' = [slots EXCEPT ![i] = o.obj]
          /\ last' = [LastBase EXCEPT !.op = "setitem", !.a = i, !.b = j, !.err = o.err]
    /\ result' = NoObj
    /\ nstore' = nstore + 1

\* FixedPointFormat(wl, iwl) or FixedPointFormat(wl, iwl, fwl)
NewFormat(key) ==
    LET fwl == IF Len(key) = 3 THEN key[3] ELSE key[1] - key[2] - 1
        ok == FixedPointFormat_ok(key[1], key[2], fwl)
    IN /\ Idle
       /\ last' = [LastBase EXCEPT !.op = "format", !.key = key,
                                   !.iW = IF ok THEN <<key[1], key[2], fwl>> ELSE NoFormat,
                                   !.err = IF ok THEN "ok" ELSE "AssertionError"]
       /\ result' = NoObj
       /\ UNCHANGED <<slots, nstore>>

\* v = fixbv._round(slots[i], fmt, round_mode), fmt a FixedPointFormat; the mode
\* is looked at only when fractional bits are dropped
Round(i, fmt, round_mode) ==
    /\ Idle
    /\ IsFixbv(i)
    /\ FixedPointFormat_ok(fmt[1], fmt[2], fmt[3])
    /\ LET bad == slots[i].W[3] > fmt[3] /\ round_mode \notin RoundModes
       IN last' = [LastBase EXCEPT !.op = "round", !.a = i, !.iW = fmt,
                                   !.round_mode = round_mode,
                                   !.v = IF bad THEN 0
                                         ELSE fixbv__round_fixbv(slots[i], fmt, round_mode),
                                   !.err = IF bad THEN "InvalidRoundMode" ELSE "ok"]
    /\ result' = NoObj
    /\ UNCHANGED <<slots, nstore>>

\* v = fixbv._overflow(x, fmt, overflow_mode) for an integer x
Overflow(x, fmt, overflow_mode) ==
    /\ Idle
    /\ LET bad == overflow_mode \notin OverflowModes
       IN last' = [LastBase EXCEPT !.op = "overflow", !.x = x, !.iW = fmt,
                                   !.overflow_mode = overflow_mode,
                                   !.v = IF bad THEN 0
                                         ELSE fixbv__overflow(x, fmt, overflow_mode),
                                   !.err = IF bad THEN "InvalidOverflowMode" ELSE "ok"]
    /\ result' = NoObj
    /\ UNCHANGED <<slots, nstore>>

----------------------------------------------------------------------------
(* Spec: programs that construct values, combine them and bind results *)

\* <<val, round_mode, overflow_mode>> of the values constructed with
\* min = -2, max = 2, res = 1/2
SArgs == {<<R(-2, 1), "floor", "saturate">>, <<R(3, 2), "round_even", "wrap">>,
          <<R(2, 1), "floor", "saturate">>}
SKeys == {<<5, 1, 1>>, <<2, 1>>}
SFormats == {<<5, 1, 1>>, <<2, 1>>}

Next ==
    \/ \E x \in SArgs : Construct(x[1], R(-2, 1), R(2, 1), R(1, 2), x[2], x[3])
    \/ Construct(R(0, 1), None, None, None, "floor", "saturate")
    \/ \E k \in Slots : Store(k)
    \/ Discard
    \/ \E i, j \in Slots : Add(i, j)
    \/ \E i, j \in Slots : Sub(i, j)
    \/ \E i, j \in Slots : Mul(i, j)
    \/ \E i \in Slots, n \in 0..MaxExp : Pow(i, PyInt(n))
    \/ \E i \in Slots, key \in SKeys : GetItem(i, key)
    \/ \E i, j \in Slots : SetItem(i, j)
    \/ \E key \in SFormats : NewFormat(key)

Spec == Init /\ [][Next]_vars

----------------------------------------------------------------------------
(* SpecCtor: the constructor applied to a range of arguments *)

\* the reals n/8
CVals == {R(n, 8) : n \in -17..17}
CMins == {None, R(-2, 1), R(-1, 2), R(-5, 2), R(-1, 1)}
CMaxs == {None, R(2, 1), R(1, 2), R(5, 2), R(5, 1)}
CRes == {None, R(0, 1), R(3, 2), R(1, 1), R(1, 2), R(3, 8), R(1, 4)}
CRound == RoundModes \cup {"truncate"}
COver == {"saturate", "wrap"}

NextCtor ==
    \/ /\ Idle
       /\ \E val \in CVals, min \in CMins, max \in CMaxs, rs \in CRes,
             rm \in CRound, om \in COver : Construct(val, min, max, rs, rm, om)
    \/ Discard

SpecCtor == Init /\ [][NextCtor]_vars

----------------------------------------------------------------------------
(* SpecArith: the operators applied to every pair of a pool of values *)

AVals == {R(-2, 1), R(-3, 2), R(1, 1), R(3, 2), R(13, 4)}
ARanges == {<<R(-8, 1), R(8, 1)>>, <<R(-2, 1), R(2, 1)>>}
ARes == {R(1, 4), R(1, 16)}
AModes == {<<"floor", "saturate">>, <<"round", "wrap">>,
           <<"nearest", "saturate">>, <<"round_even", "wrap">>}

AOutcomes == {fixbv___init__(val, r[1], r[2], rs, m[1], m[2]) :
                 val \in AVals, r \in ARanges, rs \in ARes, m \in AModes}
APool == {o.obj : o \in {x \in AOutcomes : x.err = "ok"}}

InitArith ==
    /\ slots \in [Slots -> APool]
    /\ result = NoObj
    /\ last = LastBase
    /\ nstore = 0

NextArith ==
    \/ \E i, j \in Slots : Add(i, j)
    \/ \E i, j \in Slots : Sub(i, j)
    \/ \E i, j \in Slots : Mul(i, j)
    \/ \E i \in Slots, n \in 0..MaxExp : Pow(i, PyInt(n))
    \/ \E i, j \in Slots : Compare(i, j)
    \/ Discard

SpecArith == InitArith /\ [][NextArith]_vars

----------------------------------------------------------------------------
(* SpecPow: ** applied to values of many formats, the one-bit format (1,0,0) *)
(* and the 15-bit format (15,14,0) included, with integer and float         *)
(* exponents *)

PVals == {R(-12345, 1), R(-2, 1), R(-1, 1), R(-1, 2), R(0, 1), R(3, 4), R(3, 2)}
PRanges == {<<R(-1, 1), R(1, 1)>>, <<R(-2, 1), R(2, 1)>>, <<R(-8, 1), R(8, 1)>>,
            <<R(-16384, 1), R(16384, 1)>>}
PRes == {R(1, 1), R(1, 4), R(1, 16)}
PFloats == {R(3, 2), R(2, 1)}

POutcomes == {fixbv___init__(val, r[1], r[2], rs, "floor", "saturate") :
                 val \in PVals, r \in PRanges, rs \in PRes}
PPool == {o.obj : o \in {x \in POutcomes : x.err = "ok"}}

InitPow ==
    /\ slots \in [Slots -> PPool]
    /\ result = NoObj
    /\ last = LastBase
    /\ nstore = 0

NextPow ==
    \/ \E i \in Slots, n \in 0..MaxExp : Pow(i, PyInt(n))
    \/ \E i \in Slots, x \in PFloats : Pow(i, PyFloat(x))
    \/ Discard

SpecPow == InitPow /\ [][NextPow]_vars

----------------------------------------------------------------------------
(* SpecRound: the rounding engine applied to values of format (6,1,4) and   *)
(* target formats that drop 3, 2, 1 or no fractional bits *)

\* the reals n/16
RVals == {R(n, 16) : n \in -13..13}
RFormats == {<<3, 1, 1>>, <<4, 1, 2>>, <<5, 1, 3>>, <<8, 3, 4>>}
RRound == RoundModes \cup {"truncate"}

ROutcomes == {fixbv___init__(val, R(-2, 1), R(2, 1), R(1, 16), "floor", "saturate") :
                 val \in RVals}
RPool == {o.obj : o \in {x \in ROutcomes : x.err = "ok"}}

InitRound ==
    /\ slots \in [Slots -> RPool]
    /\ result = NoObj
    /\ last = LastBase
    /\ nstore = 0

NextRound ==
    \/ \E i \in Slots, fmt \in RFormats, rm \in RRound : Round(i, fmt, rm)
    \/ Discard

SpecRound == InitRound /\ [][NextRound]_vars

----------------------------------------------------------------------------
(* SpecOverflow: the overflow engine applied to the integers of magnitude   *)
(* up to MaxRaw and formats of width 1 to 5 *)

OVals == -MaxRaw..MaxRaw
OFormats == {<<1, 0, 0>>, <<2, 1, 0>>, <<3, 1, 1>>, <<4, 1, 2>>, <<5, 2, 2>>}
OOver == OverflowModes \cup {"clip"}

NextOverflow ==
    \/ \E x \in OVals, fmt \in OFormats, om \in OOver : Overflow(x, fmt, om)
    \/ Discard

SpecOverflow == Init /\ [][NextOverflow]_vars

----------------------------------------------------------------------------
(* Properties *)

OpA == slots[last.a]
OpB == slots[last.b]
RAdd(x, y) == R(x.n * y.d + y.n * x.d, x.d * y.d)
RSub(x, y) == R(x.n * y.d - y.n * x.d, x.d * y.d)
F844 == <<8, 3, 4>>

C2_Compare ==
    last.op = "cmp" =>
        LET x == fixbv__to_float(OpA)
            y == fixbv__to_float(OpB)
            c == last.cmp
        IN /\ c = <<REq(x, y), ~REq(x, y), RLt(y, x), RLe(y, x), RLt(x, y), RLe(x, y)>>
           /\ Cardinality({k \in {1, 3, 5} : c[k]}) = 1
           /\ (OpA.W[3] = 2 /\ OpA.val = 6 /\ OpB.W[3] = 4 /\ OpB.val = 24) => c[1]

\* 1.5 with F=2 compared with 1.5 with F=4
C2_Witness ==
    /\ last.op = "cmp"
    /\ OpA.W[3] = 2 /\ OpA.val = 6
    /\ OpB.W[3] = 4 /\ OpB.val = 24
    /\ last.cmp[1]

\* C3: the raw of every existing value lies in [-2^(W-1), 2^(W-1)-1] for the W
\* of its own format, after any sequence of constructions, +, -, *, **,
\* re-quantizations and whole-value assignments.
InRange(o) ==
    o.kind = "fixbv" => (-(2^(o.W[1] - 1)) <= o.val /\ o.val <= 2^(o.W[1] - 1) - 1)

C3_RawInRange == InRange(result) /\ \A k \in Slots : InRange(slots[k])

\* a product was bound to a name and then assigned, with overflow, into a
\* narrower value
C3_Witness ==
    /\ last.op = "setitem"
    /\ last.err = "ok"
    /\ OpB.W[1] > OpA.W[1]
    /\ OpB.W[3] > OpA.W[3]
    /\ ~fixbv__handleBounds(fixbv__round_fixbv(OpB, OpA.W, OpA.round_mode), OpA.W)

\* C4 as claimed: a construction whose rounded value is outside the range of its
\* format does not fail and stores the overflow engine's result.
C4_Claimed ==
    (/\ last.op = "init"
     /\ ~IsNone(last.min) /\ ~IsNone(last.max) /\ ~IsNone(last.res)
     /\ ~fixbv_invalid_range(last.min, last.max, last.res)
     /\ last.round_mode \in RoundModes) =>
        LET W == fixbv_format(last.min, last.max, last.res)
            r == fixbv__round_float(last.val, W, last.round_mode)
        IN /\ last.err = "ok"
           /\ result.kind = "fixbv"
           /\ result.val = fixbv__overflow(r, W, last.overflow_mode)

WidthOk(W) == W[1] = W[2] + W[3] + 1
ObjWidthOk(o) == o.kind = "fixbv" => WidthOk(o.W)
BadTriple == Len(last.key) = 3 /\ ~WidthOk(last.key)

Absent == IsNone(last.min) \/ IsNone(last.max) \/ IsNone(last.res)
OutOfRange ==
    \/ last.max.n * 1 < 1 * last.max.d
    \/ Abs(last.min.n) < last.min.d
    \/ last.res.n <= 0
    \/ last.res.n > last.res.d

C7_Claimed ==
    (last.op \in {"add", "sub", "mul", "pow"} /\ last.err = "ok") =>
        /\ result.round_mode = OpA.round_mode
        /\ result.overflow_mode = OpA.overflow_mode

\* C8: a value constructed without overflow from the real x, in any rounding mode
\* and format, has a real value within one resolution step 2^-F of x.
C8_RoundTrip ==
    (last.op = "init" /\ last.err = "ok" /\ result.kind = "fixbv") =>
        Abs(result.val * last.val.d - last.val.n * 2^(result.W[3])) <= last.val.d

\* a negative tie rounded in mode nearest
C8_Witness ==
    /\ last.op = "init" /\ last.err = "ok" /\ result.kind = "fixbv"
    /\ last.round_mode = "nearest"
    /\ last.val.n < 0
    /\ 2 * Abs(result.val * last.val.d - last.val.n * 2^(result.W[3])) = last.val.d

\* C9 as claimed: construction from valid (min, max, res) yields
\* I = ceil(log2(max(|min|, max))), F = ceil(log2(1/res)), W = I + F + 1.
C9_Claimed ==
    (last.op = "init" /\ last.err = "ok" /\ result.kind = "fixbv") =>
        LET m == IF RLt(last.max, RAbs(last.min)) THEN RAbs(last.min) ELSE last.max
            I == CeilLog2(m)
            F == CeilLog2(R(last.res.d, last.res.n))
        IN result.W = <<I + F + 1, I, F>>

\* C10 as amended: the format (8,3,4) composed with itself under mul_div is
\* (16,7,8).
C10_MulFormat ==
    (last.op = "mul" /\ OpA.W = F844 /\ OpB.W = F844) => last.iW = <<16, 7, 8>>

\* a product of two values of format (8,3,4)
C10_Witness ==
    /\ last.op = "mul"
    /\ OpA.W = F844 /\ OpB.W = F844
    /\ result.kind = "fixbv"

\* C10 as claimed: the format (8,3,4) composed with itself under mul_div is
\* (16,8,8).
C10_Claimed ==
    (last.op = "mul" /\ OpA.W = F844 /\ OpB.W = F844) => last.iW = <<16, 8, 8>>

PowExp == last.n.v.n
PowInt == last.op = "pow" /\ last.n.type = "int"
PowFormat ==
    IF PowExp < 2 THEN OpA.W
    ELSE <<PowExp * OpA.W[1], PowExp * OpA.W[1] - PowExp * OpA.W[3] - 1,
           PowExp * OpA.W[3]>>
PowRaw == IF PowExp = 0 THEN 1 ELSE (OpA.val)^PowExp

\* C11 as claimed: for a sized value a and every integer exponent n >= 0, a ** n
\* returns a value whose raw is a.raw^n and whose format is a's format for n < 2
\* and (n*a.W, n*a.W - n*a.F - 1, n*a.F) for n >= 2; an exponent that is not of an
\* integer type fails with InvalidExponent and produces no value.
C11_Claimed ==
    last.op = "pow" =>
        /\ PowInt =>
               /\ last.err = "ok"
               /\ result.kind = "fixbv"
               /\ result.W = PowFormat
               /\ result.val = PowRaw
        /\ ~PowInt => (last.err = "InvalidExponent" /\ result.kind = "none")

\* the re-quantization recorded in last: s bits of OpA.val are dropped
DropBits == OpA.W[3] - last.iW[3]
KeptPart == OpA.val \div 2^DropBits
TailBits == OpA.val % 2^DropBits
Midpoint == 2^(DropBits - 1)
Rounding == last.op = "round" /\ last.err = "ok" /\ DropBits > 0

\* C12 as amended: when a value is re-quantized to a smaller fractional width by
\* s bits, mode round and mode round_even give the same result: the kept part
\* raw >> s is incremented when the discarded tail is above the midpoint 2^(s-1),
\* is left when it is below, and at the midpoint is incremented only when its
\* least-significant bit is 1, so that the result is the integer nearest to
\* raw / 2^s, and the even one of the two nearest at a tie.
C12_RoundTies ==
    (Rounding /\ last.round_mode \in {"round", "round_even"}) =>
        /\ TailBits > Midpoint => last.v = KeptPart + 1
        /\ TailBits < Midpoint => last.v = KeptPart
        /\ TailBits = Midpoint => last.v = (IF KeptPart % 2 = 1 THEN KeptPart + 1 ELSE KeptPart)
        /\ 2 * Abs(last.v * 2^DropBits - OpA.val) <= 2^DropBits
        /\ 2 * Abs(last.v * 2^DropBits - OpA.val) = 2^DropBits => last.v % 2 = 0

\* a negative value at a tie with an even kept part, in mode round: not incremented
C12_Witness ==
    /\ Rounding
    /\ last.round_mode = "round"
    /\ OpA.val < 0
    /\ TailBits = Midpoint
    /\ KeptPart % 2 = 0
    /\ last.v = KeptPart

\* C12 as claimed: at a tie mode round always increments the kept part, while
\* mode round_even increments it only when its least-significant bit is 1; above
\* the midpoint both modes increment and below it neither does.
C12_Claimed ==
    (Rounding /\ last.round_mode \in {"round", "round_even"}) =>
        /\ TailBits > Midpoint => last.v = KeptPart + 1
        /\ TailBits < Midpoint => last.v = KeptPart
        /\ (TailBits = Midpoint /\ last.round_mode = "round") => last.v = KeptPart + 1
        /\ (TailBits = Midpoint /\ last.round_mode = "round_even") =>
               last.v = (IF KeptPart % 2 = 1 THEN KeptPart + 1 ELSE KeptPart)

\* the range of the format recorded in last
Lo == -(2^(last.iW[1] - 1))
Hi == 2^(last.iW[1] - 1) - 1
Wrapping == {"wrap", "ring"}

\* C13 as amended: for every integer input and every format of width W, the
\* overflow engine under saturate, wrap or ring returns a value in
\* [-2^(W-1), 2^(W-1)-1] and returns the input unchanged when it is already in
\* that range; under saturate an input >= 2^(W-1) yields 2^(W-1)-1 and an input
\* <= -2^(W-1) yields -2^(W-1); under wrap, and under ring, which is the same
\* mode, the result is congruent to the input modulo 2^W (input 2^(W-1) yields
\* -2^(W-1)); any mode string other than these three fails with
\* InvalidOverflowMode.
C13_Overflow ==
    last.op = "overflow" =>
        /\ last.overflow_mode \in {"saturate"} \cup Wrapping =>
               /\ last.err = "ok"
               /\ Lo <= last.v /\ last.v <= Hi
               /\ (Lo <= last.x /\ last.x <= Hi) => last.v = last.x
        /\ last.overflow_mode = "saturate" =>
               /\ last.x >= Hi + 1 => last.v = Hi
               /\ last.x <= Lo => last.v = Lo
        /\ last.overflow_mode \in Wrapping =>
               /\ (last.v - last.x) % 2^(last.iW[1]) = 0
               /\ last.x = Hi + 1 => last.v = Lo
        /\ last.overflow_mode \notin {"saturate"} \cup Wrapping =>
               last.err = "InvalidOverflowMode"

\* mode ring has wrapped the input 2^(W-1) to -2^(W-1)
C13_Witness ==
    /\ last.op = "overflow"
    /\ last.overflow_mode = "ring"
    /\ last.iW[1] > 1
    /\ last.x = Hi + 1
    /\ last.err = "ok"
    /\ last.v = Lo

\* C13 as claimed: ... under saturate and under wrap as above; any other mode
\* string fails with InvalidOverflowMode.
C13_Claimed ==
    last.op = "overflow" =>
        /\ last.overflow_mode \in {"saturate", "wrap"} =>
               /\ last.err = "ok"
               /\ Lo <= last.v /\ last.v <= Hi
               /\ (Lo <= last.x /\ last.x <= Hi) => last.v = last.x
        /\ last.overflow_mode = "saturate" =>
               /\ last.x >= Hi + 1 => last.v = Hi
               /\ last.x <= Lo => last.v = Lo
        /\ last.overflow_mode = "wrap" =>
               /\ (last.v - last.x) % 2^(last.iW[1]) = 0
               /\ last.x = Hi + 1 => last.v = Lo
        /\ last.overflow_mode \notin {"saturate", "wrap"} =>
               last.err = "InvalidOverflowMode"

====
